---------------------------- MODULE Spec2Model ----------------------------
(***************************************************************************)
(* A model of CSVfilter (src/main.py): the filter-expression evaluator     *)
(* (parse_filter_expression, eval_expression, convert_value), the paging   *)
(* reader read_csv_with_filter, the writer save_filtered_data and the      *)
(* module-level batch loop over the filter specifications.                 *)
(*                                                                         *)
(* Python values are tagged records; a Python str is a sequence of         *)
(* one-character strings, so that len(), int(), float() and the ordering   *)
(* of strings are computed and not assumed.  The outcome of a call is      *)
(* either Ok(value) or Err(exception name).                                *)
(***************************************************************************)
EXTENDS Integers, Sequences, FiniteSets, TLC

(***************************************************************************)
(* Bounds of the model.                                                    *)
(***************************************************************************)
MaxConst == 3        \* integer literals of the generated comparisons: 1..MaxConst
MaxFilters == 2      \* filter specifications in a batch
MaxRows == 3         \* data records in the input file
MaxPage == 2         \* page_number ranges over 1..MaxPage
MaxPageSize == 2     \* page_size ranges over 1..MaxPageSize

(***************************************************************************)
(* Python values.                                                          *)
(***************************************************************************)
IntVal(n) == [t |-> "int", n |-> n]
FloatVal(num, scale) == [t |-> "float", num |-> num, scale |-> scale]
StrVal(s) == [t |-> "str", s |-> s]
BoolVal(b) == [t |-> "bool", b |-> b]
NoneVal == [t |-> "None"]

Ok(v) == [ok |-> TRUE, val |-> v]
Err(e) == [ok |-> FALSE, err |-> e]

\* The characters of the modelled strings, with their code points.
CharCode ==
  [c \in {" ", "+", "-", ".", "0", "1", "2", "3", "4", "5", "6", "7", "8",
          "9", "_", "a", "b", "c", "k", "l", "o", "x"} |->
     CASE c = " " -> 32 [] c = "+" -> 43 [] c = "-" -> 45 [] c = "." -> 46
       [] c = "0" -> 48 [] c = "1" -> 49 [] c = "2" -> 50 [] c = "3" -> 51
       [] c = "4" -> 52 [] c = "5" -> 53 [] c = "6" -> 54 [] c = "7" -> 55
       [] c = "8" -> 56 [] c = "9" -> 57 [] c = "_" -> 95 [] c = "a" -> 97
       [] c = "b" -> 98 [] c = "c" -> 99 [] c = "k" -> 107 [] c = "l" -> 108
       [] c = "o" -> 111 [] c = "x" -> 120]

IsDigit(c) == CharCode[c] >= 48 /\ CharCode[c] <= 57
DigitVal(c) == CharCode[c] - 48

RECURSIVE Pow10(_)
Pow10(k) == IF k = 0 THEN 1 ELSE 10 * Pow10(k - 1)

\* str.strip() as int() and float() apply it to their argument.
RECURSIVE LStrip(_)
LStrip(s) == IF s # <<>> /\ Head(s) = " " THEN LStrip(Tail(s)) ELSE s

RECURSIVE RStrip(_)
RStrip(s) ==
  IF s # <<>> /\ s[Len(s)] = " " THEN RStrip(SubSeq(s, 1, Len(s) - 1)) ELSE s

Strip(s) == RStrip(LStrip(s))

\* A digit group: digits, single underscores allowed between two digits.
DigitsOK(s) ==
  /\ s # <<>>
  /\ \A i \in 1..Len(s) : IsDigit(s[i]) \/ s[i] = "_"
  /\ IsDigit(s[1]) /\ IsDigit(s[Len(s)])
  /\ \A i \in 1..(Len(s) - 1) : ~(s[i] = "_" /\ s[i + 1] = "_")

RECURSIVE DigitsNum(_, _)
DigitsNum(s, acc) ==
  IF s = <<>> THEN acc
  ELSE IF Head(s) = "_" THEN DigitsNum(Tail(s), acc)
  ELSE DigitsNum(Tail(s), 10 * acc + DigitVal(Head(s)))

DigitCount(s) == Cardinality({i \in 1..Len(s) : IsDigit(s[i])})

SignOf(s) == IF s # <<>> /\ Head(s) = "-" THEN -1 ELSE 1
Unsigned(s) == IF s # <<>> /\ Head(s) \in {"+", "-"} THEN Tail(s) ELSE s

\* int(value) of line 43: None raises TypeError, a str that is not an
\* integer literal raises ValueError.
PyInt(value) ==
  IF value.t # "str" THEN Err("TypeError")
  ELSE LET body == Unsigned(Strip(value.s))
       IN  IF DigitsOK(body)
           THEN Ok(IntVal(SignOf(Strip(value.s)) * DigitsNum(body, 0)))
           ELSE Err("ValueError")

\* A float is kept as num / 10^scale with no trailing zero in the fraction.
RECURSIVE NormFloat(_, _)
NormFloat(num, scale) ==
  IF scale > 0 /\ num % 10 = 0 THEN NormFloat(num \div 10, scale - 1)
  ELSE FloatVal(num, scale)

DotAt(s) == {i \in 1..Len(s) : s[i] = "."}

\* float(value) of line 46, for the decimal notation (the modelled
\* characters cannot spell an exponent, "inf" or "nan").
PyFloat(value) ==
  IF value.t # "str" THEN Err("TypeError")
  ELSE LET body == Unsigned(Strip(value.s))
           sign == SignOf(Strip(value.s))
           dots == DotAt(body)
       IN  IF dots = {} THEN
             IF DigitsOK(body) THEN Ok(NormFloat(sign * DigitsNum(body, 0), 0))
             ELSE Err("ValueError")
           ELSE IF Cardinality(dots) > 1 THEN Err("ValueError")
           ELSE LET d == CHOOSE i \in dots : TRUE
                    ip == SubSeq(body, 1, d - 1)
                    fp == SubSeq(body, d + 1, Len(body))
                IN  IF /\ (ip = <<>> \/ DigitsOK(ip))
                       /\ (fp = <<>> \/ DigitsOK(fp))
                       /\ ~(ip = <<>> /\ fp = <<>>)
                    THEN Ok(NormFloat(sign * DigitsNum(ip \o fp, 0),
                                      DigitCount(fp)))
                    ELSE Err("ValueError")

\* convert_value: only ValueError is caught, any other exception escapes.
convert_value(value) ==
  LET i == PyInt(value)
  IN  IF i.ok THEN i
      ELSE IF i.err # "ValueError" THEN i
      ELSE LET f == PyFloat(value)
           IN  IF f.ok THEN f
               ELSE IF f.err # "ValueError" THEN f
               ELSE Ok(value)

\* row.get(name): the field's raw string, None when the row has no such key.
RowGet(row, id) == IF id \in DOMAIN row THEN StrVal(row[id]) ELSE NoneVal

(***************************************************************************)
(* Python's comparison of two values (the operator.* callables of `ops`).  *)
(***************************************************************************)
IsNumeric(v) == v.t \in {"int", "float", "bool"}

\* A number as num / 10^scale; bool is an int (True is 1).
NumOf(v) ==
  CASE v.t = "int" -> [num |-> v.n, scale |-> 0]
    [] v.t = "bool" -> [num |-> IF v.b THEN 1 ELSE 0, scale |-> 0]
    [] v.t = "float" -> [num |-> v.num, scale |-> v.scale]

NumLess(a, b) ==
  NumOf(a).num * Pow10(NumOf(b).scale) < NumOf(b).num * Pow10(NumOf(a).scale)

NumEq(a, b) ==
  NumOf(a).num * Pow10(NumOf(b).scale) = NumOf(b).num * Pow10(NumOf(a).scale)

RECURSIVE StrLess(_, _)
StrLess(s, u) ==
  IF u = <<>> THEN FALSE
  ELSE IF s = <<>> THEN TRUE
  ELSE IF Head(s) = Head(u) THEN StrLess(Tail(s), Tail(u))
  ELSE CharCode[Head(s)] < CharCode[Head(u)]

\* a == b never raises: values of unrelated types are unequal.
PyEq(a, b) ==
  IF IsNumeric(a) /\ IsNumeric(b) THEN NumEq(a, b)
  ELSE IF a.t = "str" /\ b.t = "str" THEN a.s = b.s
  ELSE a.t = "None" /\ b.t = "None"

Comparable(a, b) ==
  \/ IsNumeric(a) /\ IsNumeric(b)
  \/ a.t = "str" /\ b.t = "str"

PyLess(a, b) == IF IsNumeric(a) THEN NumLess(a, b) ELSE StrLess(a.s, b.s)

\* An ordering mutant: a total order across types (numbers before strings,
\* None first) instead of Python 3's TypeError.
PyOrderTotal(op, a, b) ==
  LET rank(v) == IF v.t = "None" THEN 0 ELSE IF IsNumeric(v) THEN 1 ELSE 2
      lt == IF Comparable(a, b) THEN PyLess(a, b) ELSE rank(a) < rank(b)
      gt == IF Comparable(a, b) THEN PyLess(b, a) ELSE rank(b) < rank(a)
  IN  Ok(BoolVal(CASE op = "Lt" -> lt
                   [] op = "LtE" -> ~gt
                   [] op = "Gt" -> gt
                   [] op = "GtE" -> ~lt))

\* operator.lt / le / gt / ge: TypeError unless both operands are numbers
\* or both are strings.
PyOrder(op, a, b) ==
  IF ~Comparable(a, b) THEN Err("TypeError")
  ELSE Ok(BoolVal(CASE op = "Lt" -> PyLess(a, b)
                    [] op = "LtE" -> PyLess(a, b) \/ PyEq(a, b)
                    [] op = "Gt" -> PyLess(b, a)
                    [] op = "GtE" -> PyLess(b, a) \/ PyEq(a, b)))

\* The comparison operators of the `ops` table (lines 14-19).
CompareOps == {"Eq", "NotEq", "Lt", "LtE", "Gt", "GtE"}
OrderOps == {"Lt", "LtE", "Gt", "GtE"}

\* ops[type(op)](a, b); an operator that is no key of `ops` is a KeyError.
ApplyOp(op, a, b) ==
  IF op \notin CompareOps THEN Err("KeyError")
  ELSE IF op = "Eq" THEN Ok(BoolVal(PyEq(a, b)))
  ELSE IF op = "NotEq" THEN Ok(BoolVal(~PyEq(a, b)))
  ELSE PyOrder(op, a, b)

\* bool(v), as all(), any() and `if` apply it.
Truthy(v) ==
  CASE v.t = "bool" -> v.b
    [] v.t = "int" -> v.n # 0
    [] v.t = "float" -> v.num # 0
    [] v.t = "str" -> v.s # <<>>
    [] v.t = "None" -> FALSE

\* len(arg_value) of line 37.
PyLen(v) == IF v.t = "str" THEN Ok(IntVal(Len(v.s))) ELSE Err("TypeError")

(***************************************************************************)
(* The syntax tree that ast.parse produces.                                *)
(***************************************************************************)
Name(id) == [kind |-> "Name", id |-> id]
Constant(v) == [kind |-> "Constant", value |-> v]
Compare(l, os, cs) ==
  [kind |-> "Compare", left |-> l, ops |-> os, comparators |-> cs]
BoolOp(op, vs) == [kind |-> "BoolOp", op |-> op, values |-> vs]
Call(f, as) == [kind |-> "Call", func |-> f, args |-> as]
Attribute(v, a) == [kind |-> "Attribute", value |-> v, attr |-> a]
BinOp(l, op, r) == [kind |-> "BinOp", left |-> l, op |-> op, right |-> r]

\* The index of the first child whose evaluation raised, 0 if none did.
FirstErr(rs) ==
  IF \E i \in 1..Len(rs) : ~rs[i].ok
  THEN CHOOSE i \in 1..Len(rs) : ~rs[i].ok /\ \A j \in 1..(i - 1) : rs[j].ok
  ELSE 0

\* A BoolOp mutant: `and` / `or` that stop at the deciding child.
RECURSIVE eval_BoolOp_shortcircuit(_, _)
eval_BoolOp_shortcircuit(op, rs) ==
  IF rs = <<>> THEN Ok(BoolVal(op = "And"))
  ELSE IF ~Head(rs).ok THEN Head(rs)
  ELSE IF op = "And" /\ ~Truthy(Head(rs).val) THEN Ok(BoolVal(FALSE))
  ELSE IF op = "Or" /\ Truthy(Head(rs).val) THEN Ok(BoolVal(TRUE))
  ELSE eval_BoolOp_shortcircuit(op, Tail(rs))

\* Lines 25-26 applied to the children's outcomes rs, in order: the
\* generator is unpacked into the call, so every child is evaluated before
\* all() or any() sees a value, and the first exception escapes.
eval_BoolOp(op, rs) ==
  IF FirstErr(rs) # 0 THEN rs[FirstErr(rs)]
  ELSE IF op = "And"
       THEN Ok(BoolVal(\A i \in 1..Len(rs) : Truthy(rs[i].val)))
       ELSE Ok(BoolVal(\E i \in 1..Len(rs) : Truthy(rs[i].val)))

RECURSIVE eval_expression(_, _)
RECURSIVE eval_comparisons(_, _, _, _)

\* all(comparisons) of lines 29-30 from the i-th (op, right) pair on: the
\* generator is consumed lazily, every pair compares against `left`, and
\* all() stops at the first false pair.
eval_comparisons(expr, row, left, i) ==
  IF i > Len(expr.ops) \/ i > Len(expr.comparators) THEN Ok(BoolVal(TRUE))
  ELSE IF expr.ops[i] \notin CompareOps THEN Err("KeyError")
  ELSE LET right == eval_expression(expr.comparators[i], row)
       IN  IF ~right.ok THEN right
           ELSE LET r == ApplyOp(expr.ops[i], left, right.val)
                IN  IF ~r.ok THEN r
                    ELSE IF ~Truthy(r.val) THEN Ok(BoolVal(FALSE))
                    ELSE eval_comparisons(expr, row, left, i + 1)

eval_expression(expr, row) ==
  IF expr.kind = "BoolOp" THEN
    eval_BoolOp(expr.op,
                [i \in 1..Len(expr.values) |->
                   eval_expression(expr.values[i], row)])
  ELSE IF expr.kind = "Compare" THEN
    LET left == eval_expression(expr.left, row)
    IN  IF ~left.ok THEN left
        ELSE eval_comparisons(expr, row, left.val, 1)
  ELSE IF expr.kind = "Name" THEN convert_value(RowGet(row, expr.id))
  ELSE IF expr.kind = "Constant" THEN Ok(expr.value)
  ELSE IF expr.kind = "Call" THEN
    IF expr.func.kind # "Name" THEN Err("AttributeError")
    ELSE IF expr.func.id = "len" THEN
      IF expr.args = <<>> THEN Err("IndexError")
      ELSE LET arg_value == eval_expression(expr.args[1], row)
           IN  IF ~arg_value.ok THEN arg_value ELSE PyLen(arg_value.val)
    ELSE Err("ValueError")
  ELSE Err("ValueError")

\* parse_filter_expression: ast.parse accepts every well-formed Python
\* expression and returns its tree; a SyntaxError becomes a ValueError.
\* A filter text is given by whether it is well-formed and, if so, its tree.
FilterText(t) == [wellformed |-> TRUE, body |-> t]
Malformed == [wellformed |-> FALSE]

parse_filter_expression(expression) ==
  IF expression.wellformed THEN Ok(expression.body) ELSE Err("ValueError")

(***************************************************************************)
(* Inputs of the model.                                                    *)
(***************************************************************************)
s40 == <<"4", "0">>
s50 == <<"5", "0">>
sbob == <<"b", "o", "b">>
sal == <<"a", "l">>
sx == <<"x">>
sabc == <<"a", "b", "c">>

\* Records of the input file: header age, name.  The third record has a
\* non-numeric age.
BatchRows ==
  { [age |-> s40, name |-> sbob],
    [age |-> s50, name |-> sal],
    [age |-> sx, name |-> sabc] }

RECURSIVE SeqsUpTo(_, _)
SeqsUpTo(S, n) ==
  IF n = 0 THEN {<<>>}
  ELSE LET shorter == SeqsUpTo(S, n - 1)
       IN  shorter \cup {Append(q, x) : q \in shorter, x \in S}

\* The input file: absent, or a header line followed by its records.
NoSuchFile == [exists |-> FALSE]
CsvFiles ==
  {NoSuchFile} \cup {[exists |-> TRUE, records |-> q] : q \in SeqsUpTo(BatchRows, MaxRows)}

IntLit(n) == Constant(IntVal(n))
StrLit(s) == Constant(StrVal(s))

\* (age >= 35) and (age <= 45)
AgeBetween ==
  BoolOp("And", << Compare(Name("age"), <<"GtE">>, <<IntLit(35)>>),
                   Compare(Name("age"), <<"LtE">>, <<IntLit(45)>> ) >>)
\* len(name) > 2
LongName == Compare(Call(Name("len"), <<Name("name")>>), <<"Gt">>, <<IntLit(2)>>)
\* age + 1 > 5
AgePlusOne == Compare(BinOp(Name("age"), "Add", IntLit(1)), <<"Gt">>, <<IntLit(5)>>)

\* The filter texts of the batches.
Criteria ==
  {FilterText(AgeBetween), FilterText(LongName), FilterText(AgePlusOne),
   Malformed}

\* output_file of the j-th filter specification: one distinct path each.
OutputFile(j) == <<"data", j>>

\* The batches: `filters` of lines 90-96, of every length up to MaxFilters.
Batches ==
  { [j \in 1..Len(cs) |-> [criteria |-> cs[j], output_file |-> OutputFile(j)]] :
      cs \in SeqsUpTo(Criteria, MaxFilters) \ {<<>>} }

NoFile == [written |-> FALSE]
NotEvaluated == [ok |-> FALSE, err |-> "not evaluated"]
Undefined == <<"undefined">>

VARIABLES
  expr,                 \* eval_expression's argument expr (last call)
  row,                  \* eval_expression's argument row (last call)
  result,               \* outcome of the last call of eval_expression
  filters,              \* the batch, lines 90-96
  csv_file,             \* the file at file_path
  page_number,
  page_size,
  fi,                   \* position of the batch loop in filters (1-based)
  pc,                   \* position of the script
  expression_tree,      \* read_csv_with_filter's local
  reader,               \* records the DictReader has consumed
  row_index,            \* enumerate's counter, line 67
  filtered_data,        \* read_csv_with_filter's local list
  evaluated,            \* history: offsets of the records evaluated in this call
  batch_filtered_data,  \* module-level filtered_data, line 104
  returns,              \* history: calls of read_csv_with_filter that returned
  disk,                 \* output path -> file content
  stdout,               \* the lines printed
  error                 \* the exception that ended the script, if any

vars ==
  << expr, row, result, filters, csv_file, page_number, page_size, fi, pc,
     expression_tree, reader, row_index, filtered_data, evaluated,
     batch_filtered_data, returns, disk, stdout, error >>

inputs == << filters, csv_file, page_number, page_size >>
lastEval == << expr, row, result >>
outputs == << disk, stdout >>

start_index == (page_number - 1) * page_size
end_index == start_index + page_size

OutputFiles == {OutputFile(j) : j \in 1..(MaxFilters + 1)}

Init ==
  /\ filters \in Batches
  /\ csv_file \in CsvFiles
  /\ page_number \in 1..MaxPage
  /\ page_size \in 1..MaxPageSize
  /\ fi = 1
  /\ pc = "loop"
  /\ expr = Undefined /\ row = Undefined /\ result = NotEvaluated
  /\ expression_tree = Undefined
  /\ reader = 0 /\ row_index = 0
  /\ filtered_data = <<>>
  /\ evaluated = <<>>
  /\ batch_filtered_data = <<>>
  /\ returns = 0
  /\ disk = [f \in OutputFiles |-> NoFile]
  /\ stdout = <<>>
  /\ error = "none"

\* An uncaught exception ends the script: nothing catches it in
\* read_csv_with_filter or in the batch loop.
Raise(e) == pc' = "crashed" /\ error' = e

\* for filter_data in filters: (lines 101-104, up to the call)
LoopNext ==
  /\ pc = "loop" /\ fi <= Len(filters)
  /\ pc' = "open"
  /\ UNCHANGED << lastEval, inputs, fi, expression_tree, reader, row_index,
                  filtered_data, evaluated, batch_filtered_data, returns,
                  outputs, error >>

\* The loop is exhausted: the script ends.
LoopEnd ==
  /\ pc = "loop" /\ fi > Len(filters)
  /\ pc' = "done"
  /\ UNCHANGED << lastEval, inputs, fi, expression_tree, reader, row_index,
                  filtered_data, evaluated, batch_filtered_data, returns,
                  outputs, error >>

\* Lines 56-58: filtered_data = [], open the file, create the reader.
OpenFile ==
  /\ pc = "open"
  /\ filtered_data' = <<>>
  /\ evaluated' = <<>>
  /\ reader' = 0
  /\ row_index' = 0
  /\ IF csv_file.exists
     THEN pc' = "parse" /\ error' = error
     ELSE Raise("FileNotFoundError")
  /\ UNCHANGED << lastEval, inputs, fi, expression_tree,
                  batch_filtered_data, returns, outputs >>

\* Line 59.
ParseFilter ==
  /\ pc = "parse"
  /\ LET t == parse_filter_expression(filters[fi].criteria)
     IN  IF t.ok
         THEN expression_tree' = t.val /\ pc' = "skip" /\ error' = error
         ELSE expression_tree' = expression_tree /\ Raise(t.err)
  /\ UNCHANGED << lastEval, inputs, fi, reader, row_index, filtered_data,
                  evaluated, batch_filtered_data, returns, outputs >>

Min(a, b) == IF a < b THEN a ELSE b

\* Lines 61-65: next(reader, None), start_index times.
SkipRecords ==
  /\ pc = "skip"
  /\ reader' = Min(start_index, Len(csv_file.records))
  /\ pc' = "scan"
  /\ UNCHANGED << lastEval, inputs, fi, expression_tree, row_index,
                  filtered_data, evaluated, batch_filtered_data, returns,
                  outputs, error >>

\* A mutant of the scan: a row whose evaluation raises is skipped and the
\* scan goes on.
ScanRow_skip ==
  /\ pc = "scan"
  /\ IF reader >= Len(csv_file.records)
     THEN /\ pc' = "return"
          /\ UNCHANGED << lastEval, reader, row_index, filtered_data,
                          evaluated, error >>
     ELSE IF row_index >= end_index
     THEN /\ pc' = "return"
          /\ reader' = reader + 1
          /\ UNCHANGED << lastEval, row_index, filtered_data, evaluated, error >>
     ELSE LET r == csv_file.records[reader + 1]
              v == eval_expression(expression_tree, r)
          IN  /\ reader' = reader + 1
              /\ evaluated' = Append(evaluated, reader)
              /\ expr' = expression_tree /\ row' = r /\ result' = v
              /\ filtered_data' = IF v.ok /\ Truthy(v.val)
                                  THEN Append(filtered_data, r)
                                  ELSE filtered_data
              /\ row_index' = row_index + 1
              /\ pc' = pc /\ error' = error
  /\ UNCHANGED << inputs, fi, expression_tree, batch_filtered_data, returns,
                  outputs >>

\* One iteration of the loop of lines 67-71: fetch the next record, break
\* at end_index, else evaluate it and keep it when the filter holds.
ScanRow ==
  /\ pc = "scan"
  /\ IF reader >= Len(csv_file.records)
     THEN /\ pc' = "return"
          /\ UNCHANGED << lastEval, reader, row_index, filtered_data,
                          evaluated, error >>
     ELSE IF row_index >= end_index
     THEN /\ pc' = "return"
          /\ reader' = reader + 1
          /\ UNCHANGED << lastEval, row_index, filtered_data, evaluated, error >>
     ELSE LET r == csv_file.records[reader + 1]
              v == eval_expression(expression_tree, r)
          IN  /\ reader' = reader + 1
              /\ evaluated' = Append(evaluated, reader)
              /\ expr' = expression_tree /\ row' = r /\ result' = v
              /\ IF v.ok
                 THEN /\ filtered_data' = IF Truthy(v.val)
                                          THEN Append(filtered_data, r)
                                          ELSE filtered_data
                      /\ row_index' = row_index + 1
                      /\ pc' = pc /\ error' = error
                 ELSE /\ Raise(v.err)
                      /\ UNCHANGED << filtered_data, row_index >>
  /\ UNCHANGED << inputs, fi, expression_tree, batch_filtered_data, returns,
                  outputs >>

\* Line 73 and the assignment of line 104.
Return ==
  /\ pc = "return"
  /\ batch_filtered_data' = filtered_data
  /\ returns' = returns + 1
  /\ pc' = "save"
  /\ UNCHANGED << lastEval, inputs, fi, expression_tree, reader, row_index,
                  filtered_data, evaluated, outputs, error >>

NoDataNotice(f) == [text |-> "No data matched the filter criteria", file |-> f]
StoredNotice(f) == [text |-> "Data stored", file |-> f]

\* The file DictWriter writes: the header from the first row's keys, then
\* one line per row.
CsvContent(data) ==
  [written |-> TRUE, header |-> DOMAIN data[1], lines |-> data]

\* A mutant of the writer: an empty result is written as an empty file.
save_filtered_data_always(data, output_file, writable) ==
  IF ~writable THEN [ok |-> FALSE, disk |-> disk, stdout |-> stdout]
  ELSE [ok |-> TRUE,
        disk |-> [disk EXCEPT ![output_file] =
                    IF data = <<>>
                    THEN [written |-> TRUE, header |-> {}, lines |-> <<>>]
                    ELSE CsvContent(data)],
        stdout |-> Append(stdout, StoredNotice(output_file))]

\* save_filtered_data; `writable` says whether os.makedirs and open(.., 'w')
\* succeed.  The result is the disk and the output after the call, or the
\* OSError that escapes.
save_filtered_data(data, output_file, writable) ==
  IF data = <<>>
  THEN [ok |-> TRUE, disk |-> disk,
        stdout |-> Append(stdout, NoDataNotice(output_file))]
  ELSE IF ~writable THEN [ok |-> FALSE, disk |-> disk, stdout |-> stdout]
  ELSE [ok |-> TRUE,
        disk |-> [disk EXCEPT ![output_file] = CsvContent(data)],
        stdout |-> Append(stdout, StoredNotice(output_file))]

\* Line 105, and the step to the next filter specification.
Save ==
  /\ pc = "save"
  /\ \E writable \in BOOLEAN :
       LET s == save_filtered_data(batch_filtered_data,
                                   filters[fi].output_file, writable)
       IN  /\ disk' = s.disk
           /\ stdout' = s.stdout
           /\ IF s.ok
              THEN pc' = "loop" /\ fi' = fi + 1 /\ error' = error
              ELSE Raise("OSError") /\ fi' = fi
  /\ UNCHANGED << lastEval, inputs, expression_tree, reader, row_index,
                  filtered_data, evaluated, batch_filtered_data, returns >>

Next ==
  \/ LoopNext
  \/ LoopEnd
  \/ OpenFile
  \/ ParseFilter
  \/ SkipRecords
  \/ ScanRow
  \/ Return
  \/ Save

Spec == Init /\ [][Next]_vars

(***************************************************************************)
(* The evaluator on its own: one call of eval_expression on an expression  *)
(* and a row drawn from the pools below.                                   *)
(***************************************************************************)
Operands ==
  {Name("age"), Name("name"), Name("zip")}
    \cup {IntLit(n) : n \in 1..MaxConst}
    \cup {StrLit(sx), Constant(FloatVal(25, 1)), Constant(BoolVal(TRUE)),
          Constant(NoneVal)}

\* a op b, for the six operators of `ops` and for `in`, which is no key of it.
SimpleCompares ==
  {Compare(l, <<o>>, <<r>>) : l \in Operands, r \in Operands,
                              o \in CompareOps \cup {"In"}}

ChainOperands == {IntLit(n) : n \in 1..MaxConst} \cup {Name("age"), StrLit(sx)}

\* a op1 b op2 c
ChainedCompares ==
  {Compare(a, <<o1, o2>>, <<b, c>>) :
     a \in ChainOperands, b \in ChainOperands, c \in ChainOperands,
     o1 \in CompareOps, o2 \in CompareOps}

\* len(name), len(age), len(), len(name, age), upper(name), name.upper()
Calls ==
  { Call(Name("len"), <<Name("name")>>),
    Call(Name("len"), <<Name("age")>>),
    Call(Name("len"), <<>>),
    Call(Name("len"), <<Name("name"), Name("age")>>),
    Call(Name("upper"), <<Name("name")>>),
    Call(Attribute(Name("name"), "upper"), <<>>) }

CallCompares == {Compare(c, <<"Gt">>, <<IntLit(2)>>) : c \in Calls}

BoolChildren ==
  { Compare(Name("age"), <<"GtE">>, <<IntLit(35)>>),
    Compare(Name("age"), <<"LtE">>, <<IntLit(45)>>),
    Compare(Name("age"), <<"Lt">>, <<StrLit(sx)>>),
    Compare(Name("zip"), <<"Eq">>, <<IntLit(1)>>),
    Name("name"),
    LongName }

BoolOps ==
  {BoolOp(o, <<a, b>>) : o \in {"And", "Or"}, a \in BoolChildren,
                          b \in BoolChildren}
    \cup {BoolOp(o, <<a, LongName, b>>) :
            o \in {"And", "Or"}, a \in BoolChildren, b \in BoolChildren}

\* age + 1 > 5, age + 1, age > 100 > (age + 1)
Arithmetic ==
  { AgePlusOne,
    BinOp(Name("age"), "Add", IntLit(1)),
    Compare(Name("age"), <<"Gt", "Gt">>,
            <<IntLit(100), BinOp(Name("age"), "Add", IntLit(1))>>) }

Expressions ==
  Operands \cup SimpleCompares \cup ChainedCompares \cup Calls
    \cup CallCompares \cup BoolOps \cup Arithmetic

EvalRows ==
  BatchRows \cup
  { [age |-> <<"2">>],
    [age |-> <<"2", ".", "5">>, name |-> <<>>],
    [age |-> <<" ", "-", "1">>, name |-> sal, zip |-> <<"1">>] }

InitEval ==
  /\ expr \in Expressions
  /\ row \in EvalRows
  /\ result = NotEvaluated
  /\ pc = "eval"
  /\ filters = <<>>
  /\ csv_file = NoSuchFile
  /\ page_number = 1 /\ page_size = 1
  /\ fi = 1
  /\ expression_tree = Undefined
  /\ reader = 0 /\ row_index = 0
  /\ filtered_data = <<>>
  /\ evaluated = <<>>
  /\ batch_filtered_data = <<>>
  /\ returns = 0
  /\ disk = [f \in OutputFiles |-> NoFile]
  /\ stdout = <<>>
  /\ error = "none"

\* eval_expression(expr, row)
Evaluate ==
  /\ pc = "eval"
  /\ result' = eval_expression(expr, row)
  /\ pc' = "evaluated"
  /\ UNCHANGED << expr, row, inputs, fi, expression_tree, reader, row_index,
                  filtered_data, evaluated, batch_filtered_data, returns,
                  outputs, error >>

NextEval == Evaluate

SpecEval == InitEval /\ [][NextEval]_vars

(***************************************************************************)
(* Properties.                                                             *)
(***************************************************************************)
NumRecords == IF csv_file.exists THEN Len(csv_file.records) ELSE 0

\* The offsets of the page: (p-1)*s .. p*s-1, cut at the end of the input.
WindowFirst == Min((page_number - 1) * page_size, NumRecords)
WindowLast == Min(page_number * page_size, NumRecords) - 1
WindowOffsets == [k \in 1..(WindowLast - WindowFirst + 1) |-> WindowFirst + k - 1]

Matches(tree, r) ==
  LET v == eval_expression(tree, r) IN v.ok /\ Truthy(v.val)

\* The records of the page for which the filter holds, in input order.
RECURSIVE WindowMatches(_, _)
WindowMatches(tree, offs) ==
  IF offs = <<>> THEN <<>>
  ELSE LET r == csv_file.records[Head(offs) + 1]
       IN  (IF Matches(tree, r) THEN <<r>> ELSE <<>>)
             \o WindowMatches(tree, Tail(offs))

\* C1: read_csv_with_filter evaluates only the records at offsets
\* (p-1)*s .. p*s-1 (up to the end of the input) and returns exactly the
\* records of that window for which the filter holds, in input order.
C1_PageWindow ==
  /\ \A k \in 1..Len(evaluated) :
       /\ evaluated[k] >= (page_number - 1) * page_size
       /\ evaluated[k] < page_number * page_size
  /\ pc = "save" =>
       /\ evaluated = WindowOffsets
       /\ batch_filtered_data = WindowMatches(expression_tree, WindowOffsets)

\* The operands of a comparison, left to right.
ChainOperandsOf(e) == <<e.left>> \o e.comparators

\* (a op1 b) AND (b op2 c) AND ...: every operator on its own two operands.
PairwiseAnd(e) ==
  BoolOp("And", [i \in 1..Len(e.ops) |->
                   Compare(ChainOperandsOf(e)[i], <<e.ops[i]>>,
                           <<ChainOperandsOf(e)[i + 1]>>)])

\* C2: a chained comparison a op1 b op2 c evaluates to the same result as
\* (a op1 b) AND (b op2 c).
C2_ChainedIsPairwise ==
  (pc = "evaluated" /\ expr.kind = "Compare" /\ Len(expr.ops) >= 2) =>
    LET ref == eval_expression(PairwiseAnd(expr), row)
    IN  (result.ok /\ ref.ok) => (Truthy(result.val) = Truthy(ref.val))

\* C3: evaluating a reference to a field that the row does not have does not
\* fail, alone or as the operand of an == / != against a literal.
C3_MissingFieldNoFailure ==
  pc = "evaluated" =>
    /\ (expr.kind = "Name" /\ expr.id \notin DOMAIN row) => result.ok
    /\ ( /\ expr.kind = "Compare"
         /\ expr.ops \in {<<"Eq">>, <<"NotEq">>}
         /\ expr.left.kind = "Name" /\ expr.left.id \notin DOMAIN row
         /\ expr.comparators[1].kind = "Constant" ) => result.ok

\* A comparison a op b (op one of the six operators) whose operands both
\* evaluate, one to a string and the other to a number.
MismatchedCompare ==
  /\ pc = "evaluated"
  /\ expr.kind = "Compare"
  /\ Len(expr.ops) = 1 /\ Len(expr.comparators) = 1
  /\ expr.ops[1] \in CompareOps
  /\ LET l == eval_expression(expr.left, row)
         r == eval_expression(expr.comparators[1], row)
     IN  /\ l.ok /\ r.ok
         /\ \/ l.val.t = "str" /\ IsNumeric(r.val)
            \/ IsNumeric(l.val) /\ r.val.t = "str"

\* C4 (as stated): for each of the six operators a comparison of a string
\* against a number ends in a type error, never in a boolean.
C4_MismatchAlwaysFails ==
  MismatchedCompare => (~result.ok /\ result.err = "TypeError")

\* C4 (amended): for <, <=, >, >= a comparison of a string against a number
\* ends in a TypeError; for == it yields false and for != true.
C4_OrderingMismatchFails ==
  MismatchedCompare =>
    /\ expr.ops[1] \in OrderOps => result = Err("TypeError")
    /\ expr.ops[1] = "Eq" => result = Ok(BoolVal(FALSE))
    /\ expr.ops[1] = "NotEq" => result = Ok(BoolVal(TRUE))

\* age < "x" on a row whose age is numeric ended in a TypeError.
C4_Witness ==
  /\ MismatchedCompare
  /\ expr = Compare(Name("age"), <<"Lt">>, <<StrLit(sx)>>)
  /\ row.age = s40
  /\ result = Err("TypeError")

\* The constructs the filter language has: boolean combinators,
\* comparisons, field references, literals and len(<one argument>).
RECURSIVE Supported(_)
Supported(e) ==
  CASE e.kind = "BoolOp" ->
         \A i \in 1..Len(e.values) : Supported(e.values[i])
    [] e.kind = "Compare" ->
         /\ Supported(e.left)
         /\ \A i \in 1..Len(e.ops) : e.ops[i] \in CompareOps
         /\ \A i \in 1..Len(e.comparators) : Supported(e.comparators[i])
    [] e.kind = "Name" -> TRUE
    [] e.kind = "Constant" -> TRUE
    [] e.kind = "Call" ->
         /\ e.func = Name("len")
         /\ Len(e.args) = 1
         /\ Supported(e.args[1])
    [] OTHER -> FALSE

\* C5: a filter text with an unsupported construct is rejected when it is
\* compiled, whatever the rows: read_csv_with_filter never returns a result
\* for it.
C5_UnsupportedNeverYields ==
  pc = "save" =>
    ( /\ filters[fi].criteria.wellformed
      /\ Supported(filters[fi].criteria.body) )

\* C6: a call other than len(<exactly one argument>) is not accepted: its
\* evaluation ends in an error and never yields a value.
C6_OnlyLenOfOneArgument ==
  ( /\ pc = "evaluated"
    /\ expr.kind = "Call"
    /\ ~(expr.func = Name("len") /\ Len(expr.args) = 1) ) => ~result.ok

\* C7: a failure while one filter specification is processed does not end
\* the batch: when the script has ended, the loop has come to the last
\* filter specification.
C7_FailureConfined ==
  pc \in {"done", "crashed"} => fi >= Len(filters)

Last(q) == q[Len(q)]

\* C8: save_filtered_data writes no file for an empty result and prints the
\* notice instead; a file that is written has its header and one line for
\* each of the (one or more) rows.
C8_NoFileForEmptyResult ==
  /\ \A f \in OutputFiles :
       disk[f].written =>
         /\ Len(disk[f].lines) >= 1
         /\ disk[f].header = DOMAIN disk[f].lines[1]
  /\ (pc = "loop" /\ fi > 1) =>
       LET f == filters[fi - 1].output_file
       IN  IF batch_filtered_data = <<>>
           THEN ~disk[f].written /\ Last(stdout) = NoDataNotice(f)
           ELSE /\ disk[f] = CsvContent(batch_filtered_data)
                /\ Last(stdout) = StoredNotice(f)

\* A filter specification whose page had no match: notice, no file.
C8_Witness ==
  /\ pc = "loop" /\ fi > 1
  /\ csv_file.exists /\ Len(csv_file.records) >= 1
  /\ batch_filtered_data = <<>>
  /\ ~disk[filters[fi - 1].output_file].written
  /\ Last(stdout) = NoDataNotice(filters[fi - 1].output_file)

ChildResults(e, r) ==
  [i \in 1..Len(e.values) |-> eval_expression(e.values[i], r)]

\* C9: a BoolOp that evaluates to a value has evaluated every child to a
\* value, and its value is the all (AND) or any (OR) of the children's;
\* (age >= 35) and (age <= 45) is true for age "40" and false for age "50".
C9_BoolOpAllAny ==
  pc = "evaluated" =>
    /\ (expr.kind = "BoolOp" /\ result.ok) =>
         LET rs == ChildResults(expr, row)
         IN  /\ \A i \in 1..Len(rs) : rs[i].ok
             /\ result.val.t = "bool"
             /\ expr.op = "And" =>
                  (result.val.b <=> \A i \in 1..Len(rs) : Truthy(rs[i].val))
             /\ expr.op = "Or" =>
                  (result.val.b <=> \E i \in 1..Len(rs) : Truthy(rs[i].val))
    /\ (expr = AgeBetween /\ row.age = s40) => result = Ok(BoolVal(TRUE))
    /\ (expr = AgeBetween /\ row.age = s50) => result = Ok(BoolVal(FALSE))

\* An AND whose first child is false and whose second child is true.
C9_Witness ==
  /\ pc = "evaluated"
  /\ expr = AgeBetween
  /\ row.age = s50
  /\ ChildResults(expr, row) = <<Ok(BoolVal(TRUE)), Ok(BoolVal(FALSE))>>
  /\ result = Ok(BoolVal(FALSE))

\* C10: once the evaluation of a scanned row has raised, the script has
\* ended with that exception: the call has not returned, the rows matched
\* so far never reach save_filtered_data, and no output file and no notice
\* exists for that filter specification.
C10_EvalErrorAborts ==
  (result # NotEvaluated /\ ~result.ok) =>
    /\ pc = "crashed"
    /\ error = result.err
    /\ returns = fi - 1
    /\ ~disk[filters[fi].output_file].written
    /\ \A k \in 1..Len(stdout) : stdout[k].file # filters[fi].output_file

\* A row matched, then the evaluation of a later row raised.
C10_Witness ==
  /\ pc = "crashed"
  /\ result # NotEvaluated /\ ~result.ok
  /\ filtered_data # <<>>
  /\ Len(evaluated) >= 2
  /\ ~disk[filters[fi].output_file].written

=============================================================================
